---- MODULE Spec2Model ----
(***************************************************************************)
(* A model of xdcodec-rs: the variable-length integer codec (varint.rs)    *)
(* and the tagged value codec built on it (codec.rs).                      *)
(*                                                                         *)
(* Representation.                                                         *)
(*   - a byte is a natural number in 0..255; a byte string is a sequence   *)
(*     of bytes;                                                           *)
(*   - a 64-bit word (u64, or i64 in two's complement) is the set of the   *)
(*     positions of its 1 bits, a subset of 0..63, so that the full width  *)
(*     is kept: | is union, ! is complement in 0..63, << and >> move the   *)
(*     positions and drop those that leave 0..63;                          *)
(*   - a Typed value is a pair <<variant, payload>>; a List payload is a   *)
(*     sequence of Typed values and a Map payload a function from keys     *)
(*     (UTF-8 byte strings) to Typed values.                               *)
(***************************************************************************)
EXTENDS Integers, Sequences, FiniteSets, TLC

VARIABLES
    checks,   \* TRUE: the build has overflow checks (debug), FALSE: it has not (release)
    phase,    \* "write": the sink is being written; "read": the source is being read
    sink,     \* the byte sink: every byte written so far
    log,      \* one record per write call made: op, arg, start, kind, err
    src,      \* the byte source
    pos,      \* the position of the source
    reads     \* one record per read call made: op, start, kind, val, pos, err, byte

vars == <<checks, phase, sink, log, src, pos, reads>>

(***************************************************************************)
(* 64-bit words                                                            *)
(***************************************************************************)
WordBits == 64

Bit == 0..(WordBits - 1)

\* 2^n for the small n the model needs (TLC's integers are 32 bits wide).
RECURSIVE Pow2Rec(_)
Pow2Rec(n) == IF n = 0 THEN 1 ELSE 2 * Pow2Rec(n - 1)

Pow2Table == [n \in 0..30 |-> Pow2Rec(n)]

Pow2(n) == Pow2Table[n]

\* The word whose value is the natural number n < 2^31.
BitsOf(n) == {b \in 0..30 : (n \div Pow2(b)) % 2 = 1}

\* The natural number a set of bit positions below 31 stands for.
RECURSIVE NatOf(_)
NatOf(w) ==
    IF w = {} THEN 0
    ELSE LET b == CHOOSE c \in w : TRUE IN Pow2(b) + NatOf(w \ {b})

\* `x as u8`: the low eight bits as a byte.
LowByte(w) == NatOf(w \cap 0..7)

\* `x << s` and `x >> s` for a shift below the width.
Shl(w, s) == {b + s : b \in w} \cap Bit
Shr(w, s) == {b - s : b \in {c \in w : c >= s}}

\* `!x`
Not64(w) == Bit \ w

(***************************************************************************)
(* Results                                                                 *)
(***************************************************************************)
NoVal == <<>>

\* What a read call gives: Ok(value), Err(error), or a panic of the thread.
ROk(v, p)       == [kind |-> "Ok",    val |-> v,     pos |-> p, err |-> "none", byte |-> 0]
RErr(e, p)      == [kind |-> "Err",   val |-> NoVal, pos |-> p, err |-> e,      byte |-> 0]
RErrTag(t, p)   == [kind |-> "Err",   val |-> NoVal, pos |-> p, err |-> "UnknownType", byte |-> t]
RPanic(e, p)    == [kind |-> "Panic", val |-> NoVal, pos |-> p, err |-> e,      byte |-> 0]

\* What a write call gives: the bytes it wrote, and Ok(()), Err(error) or a panic.
WOk(bs)         == [kind |-> "Ok",    out |-> bs, err |-> "none"]
WErr(e, bs)     == [kind |-> "Err",   out |-> bs, err |-> e]
WPanic(e, bs)   == [kind |-> "Panic", out |-> bs, err |-> e]

(***************************************************************************)
(* varint.rs                                                               *)
(***************************************************************************)
MAX_VARINT_LEN == 10

\* A guard that rejects every 10-byte encoding.
OverlongStrict(i, byte) == i >= 9

\* The overlong-encoding guard, tested when the terminating byte is read.
Overlong(i, byte) == i > 9 \/ (i = 9 /\ byte > 1)

\* `v << s` on u64 with the shift s a u64: an overflow (s >= 64) panics under
\* overflow checks and otherwise shifts by s modulo 64.
ShlOverflows(s) == s >= WordBits
ShlWrapping(v, s) == Shl(v, s % WordBits)

\* read_exact of one byte, then the loop body of read_uvarint; x, s and i are
\* the loop's variables, p the position of the source.
RECURSIVE UvarintLoop(_, _, _, _, _, _)
UvarintLoop(bs, p, x, s, i, chk) ==
    IF p >= Len(bs) THEN RErr("UnexpectedEof", p)
    ELSE LET byte == bs[p + 1] IN
         IF byte < 128
         THEN IF Overlong(i, byte) THEN RErr("InvalidData", p + 1)
              ELSE IF ShlOverflows(s) /\ chk
                   THEN RPanic("attempt to shift left with overflow", p + 1)
                   ELSE ROk(x \cup ShlWrapping(BitsOf(byte), s), p + 1)
         ELSE IF ShlOverflows(s) /\ chk
              THEN RPanic("attempt to shift left with overflow", p + 1)
              ELSE UvarintLoop(bs, p + 1,
                               x \cup ShlWrapping(BitsOf(byte % 128), s), s + 7, i + 1, chk)

read_uvarint(bs, p, chk) == UvarintLoop(bs, p, {}, 0, 0, chk)

\* The inverse zigzag transform of read_varint.
UnZigZag(un) ==
    LET n == Shr(un, 1) IN
    IF 0 \in un THEN Not64(n) ELSE n

read_varint(bs, p, chk) ==
    LET r == read_uvarint(bs, p, chk) IN
    IF r.kind # "Ok" THEN r ELSE ROk(UnZigZag(r.val), r.pos)

\* `un as u8`, the continuation bit forgotten.
GroupPlain(un) == LowByte(un)

\* `(un as u8) | 0x80`: one 7-bit group with the continuation bit.
Group(un) == (LowByte(un) % 128) + 128

\* The while loop of write_uvarint and the store after it; buf holds buf[..i],
\* and a store at an index that is not below the buffer's length panics.
RECURSIVE WriteUvarintLoop(_, _, _)
WriteUvarintLoop(un, buf, i) ==
    IF i >= MAX_VARINT_LEN THEN WPanic("index out of bounds", <<>>)
    ELSE IF \E b \in un : b >= 7
         THEN WriteUvarintLoop(Shr(un, 7), Append(buf, Group(un)), i + 1)
         ELSE WOk(Append(buf, LowByte(un)))

write_uvarint(un) == WriteUvarintLoop(un, <<>>, 0)

\* A zigzag transform that forgets to flip the bits of a negative number.
ZigZagNoFlip(n) == Shl(n, 1)

\* The zigzag transform of write_varint.
ZigZag(n) ==
    LET un == Shl(n, 1) IN
    IF (WordBits - 1) \in n THEN Not64(un) ELSE un

write_varint(n) == write_uvarint(ZigZag(n))

(***************************************************************************)
(* codec.rs: types                                                         *)
(***************************************************************************)
TYPE_INT    == 105   \* 'i'
TYPE_UINT   == 117   \* 'u'
TYPE_FLOAT  == 102   \* 'f'
TYPE_BYTES  == 98    \* 'b'
TYPE_STRING == 115   \* 's'
TYPE_LIST   == 108   \* 'l'
TYPE_MAP    == 109   \* 'm'
CONTAINER_CAPACITY == 255

\* enum Typed. Int and Uint carry a word, Float the word f64::to_bits gives
\* (to_bits and from_bits are a transmute: the same 64 bits), Bytes and String
\* a byte string (a String's bytes are valid UTF-8), List a sequence of Typed
\* and Map a function from key byte strings to Typed.
Typed(t, v) == <<t, v>>
Tag(e) == e[1]
Val(e) == e[2]

\* The number of entries of a map.
MapLen(m) == Cardinality(DOMAIN m)

MaxOf(S) == CHOOSE x \in S : \A y \in S : y <= x

\* The map that m.insert(k, v) builds from the entries <<k, v>> of es, made in
\* their order: for a key inserted twice the last insert wins.
MapOfInserts(es) ==
    [k \in {es[i][1] : i \in DOMAIN es} |->
        es[MaxOf({i \in DOMAIN es : es[i][1] = k})][2]]

(***************************************************************************)
(* String::from_utf8_lossy                                                 *)
(***************************************************************************)
Nth(bs, j) == IF j <= Len(bs) THEN bs[j] ELSE 0

IsCont(b) == b \in 128..191

Second3(b0, b1) ==
    \/ b0 = 224 /\ b1 \in 160..191
    \/ b0 \in 225..236 /\ IsCont(b1)
    \/ b0 = 237 /\ b1 \in 128..159
    \/ b0 \in 238..239 /\ IsCont(b1)

Second4(b0, b1) ==
    \/ b0 = 240 /\ b1 \in 144..191
    \/ b0 \in 241..243 /\ IsCont(b1)
    \/ b0 = 244 /\ b1 \in 128..143

\* The chunk that starts at bs[j]: a well-formed scalar value of n bytes, or a
\* maximal ill-formed prefix of n bytes.
Utf8Chunk(bs, j) ==
    LET b0 == bs[j]
        b1 == Nth(bs, j + 1)
        b2 == Nth(bs, j + 2)
        b3 == Nth(bs, j + 3)
    IN  IF b0 < 128 THEN [n |-> 1, ok |-> TRUE]
        ELSE IF b0 \in 194..223
        THEN IF IsCont(b1) THEN [n |-> 2, ok |-> TRUE] ELSE [n |-> 1, ok |-> FALSE]
        ELSE IF b0 \in 224..239
        THEN IF ~Second3(b0, b1) THEN [n |-> 1, ok |-> FALSE]
             ELSE IF ~IsCont(b2) THEN [n |-> 2, ok |-> FALSE]
             ELSE [n |-> 3, ok |-> TRUE]
        ELSE IF b0 \in 240..244
        THEN IF ~Second4(b0, b1) THEN [n |-> 1, ok |-> FALSE]
             ELSE IF ~IsCont(b2) THEN [n |-> 2, ok |-> FALSE]
             ELSE IF ~IsCont(b3) THEN [n |-> 3, ok |-> FALSE]
             ELSE [n |-> 4, ok |-> TRUE]
        ELSE [n |-> 1, ok |-> FALSE]

\* U+FFFD REPLACEMENT CHARACTER in UTF-8.
REPLACEMENT == <<239, 191, 189>>

RECURSIVE LossyFrom(_, _)
LossyFrom(bs, j) ==
    IF j > Len(bs) THEN <<>>
    ELSE LET c == Utf8Chunk(bs, j) IN
         (IF c.ok THEN SubSeq(bs, j, j + c.n - 1) ELSE REPLACEMENT)
             \o LossyFrom(bs, j + c.n)

\* A decoder that takes every byte outside ASCII for ill-formed.
from_ascii_lossy(bs) ==
    IF bs = <<>> THEN <<>>
    ELSE LET RECURSIVE Conv(_)
             Conv(j) == IF j > Len(bs) THEN <<>>
                        ELSE (IF bs[j] < 128 THEN <<bs[j]>> ELSE REPLACEMENT) \o Conv(j + 1)
         IN Conv(1)

from_utf8_lossy(bs) == LossyFrom(bs, 1)

(***************************************************************************)
(* codec.rs: CodecReadExt                                                  *)
(***************************************************************************)
read_u8(bs, p) ==
    IF p < Len(bs) THEN ROk(bs[p + 1], p + 1) ELSE RErr("UnexpectedEof", p)

read_exact(bs, p, n) ==
    IF p + n <= Len(bs) THEN ROk(SubSeq(bs, p + 1, p + n), p + n)
    ELSE RErr("UnexpectedEof", Len(bs))

\* A read_sized that allocates and reads one byte too many.
read_sized_one_more(bs, p, chk) ==
    LET r == read_uvarint(bs, p, chk) IN
    IF r.kind # "Ok" THEN r
    ELSE IF \E b \in r.val : b > 30 THEN RErr("UnexpectedEof", Len(bs))
    ELSE read_exact(bs, r.pos, NatOf(r.val) + 1)

\* vec![0u8; sz as usize] panics with "capacity overflow" when sz exceeds
\* isize::MAX. A length of 2^31 or more, which no source of the model holds,
\* ends in read_exact's error once the buffer is allocated.
read_sized(bs, p, chk) ==
    LET r == read_uvarint(bs, p, chk) IN
    IF r.kind # "Ok" THEN r
    ELSE IF (WordBits - 1) \in r.val THEN RPanic("capacity overflow", r.pos)
    ELSE IF \E b \in r.val : b > 30 THEN RErr("UnexpectedEof", Len(bs))
    ELSE read_exact(bs, r.pos, NatOf(r.val))

RECURSIVE read_typed(_, _, _)
RECURSIVE ReadListLoop(_, _, _, _)
RECURSIVE ReadListLoopPartial(_, _, _, _)
RECURSIVE ReadMapLoop(_, _, _, _)

\* A for loop that leaves after a elements, evaluated by halves so that the
\* evaluation stays shallow: the calls are made in the same order, each from
\* the position the one before it reached, and the first failure ends the loop.
Halves(n) == [a |-> n \div 2, b |-> n - (n \div 2)]

\* A loop that, when an element fails, returns the elements read before it.
ReadListLoopPartial(bs, p, chk, n) ==
    IF n = 0 THEN ROk(<<>>, p)
    ELSE LET e == read_typed(bs, p, chk) IN
         IF e.kind # "Ok" THEN ROk(<<>>, p)
         ELSE LET rest == ReadListLoopPartial(bs, e.pos, chk, n - 1) IN
              ROk(<<e.val>> \o rest.val, rest.pos)

\* The for loop of read_list over n elements: the elements pushed, in order.
ReadListLoop(bs, p, chk, n) ==
    IF n = 0 THEN ROk(<<>>, p)
    ELSE IF n = 1
    THEN LET e == read_typed(bs, p, chk) IN
         IF e.kind # "Ok" THEN e ELSE ROk(<<e.val>>, e.pos)
    ELSE LET a == ReadListLoop(bs, p, chk, Halves(n).a) IN
         IF a.kind # "Ok" THEN a
         ELSE LET b == ReadListLoop(bs, a.pos, chk, Halves(n).b) IN
              IF b.kind # "Ok" THEN b ELSE ROk(a.val \o b.val, b.pos)

read_list(bs, p, chk) ==
    LET nelem == read_u8(bs, p) IN
    IF nelem.kind # "Ok" THEN nelem
    ELSE IF nelem.val = 0 THEN ROk(<<>>, nelem.pos)
    ELSE ReadListLoop(bs, nelem.pos, chk, nelem.val)

\* The for loop of read_map over n entries: the <<key, value>> pairs inserted,
\* in order.
ReadMapLoop(bs, p, chk, n) ==
    IF n = 0 THEN ROk(<<>>, p)
    ELSE IF n = 1
    THEN LET k == read_sized(bs, p, chk) IN
         IF k.kind # "Ok" THEN k
         ELSE LET v == read_typed(bs, k.pos, chk) IN
              IF v.kind # "Ok" THEN v
              ELSE ROk(<<<<from_utf8_lossy(k.val), v.val>>>>, v.pos)
    ELSE LET a == ReadMapLoop(bs, p, chk, Halves(n).a) IN
         IF a.kind # "Ok" THEN a
         ELSE LET b == ReadMapLoop(bs, a.pos, chk, Halves(n).b) IN
              IF b.kind # "Ok" THEN b ELSE ROk(a.val \o b.val, b.pos)

read_map(bs, p, chk) ==
    LET nelem == read_u8(bs, p) IN
    IF nelem.kind # "Ok" THEN nelem
    ELSE IF nelem.val = 0 THEN ROk(<<>>, nelem.pos)
    ELSE LET es == ReadMapLoop(bs, nelem.pos, chk, nelem.val) IN
         IF es.kind # "Ok" THEN es ELSE ROk(MapOfInserts(es.val), es.pos)

\* One arm of read_typed's match: the payload read, wrapped in its variant.
Wrap(t, r) == IF r.kind # "Ok" THEN r ELSE ROk(Typed(t, r.val), r.pos)

WrapString(r) ==
    IF r.kind # "Ok" THEN r ELSE ROk(Typed("String", from_utf8_lossy(r.val)), r.pos)

read_typed(bs, p, chk) ==
    LET t == read_u8(bs, p) IN
    IF t.kind # "Ok" THEN t
    ELSE CASE t.val = TYPE_INT    -> Wrap("Int", read_varint(bs, t.pos, chk))
           [] t.val = TYPE_UINT   -> Wrap("Uint", read_uvarint(bs, t.pos, chk))
           [] t.val = TYPE_FLOAT  -> Wrap("Float", read_uvarint(bs, t.pos, chk))
           [] t.val = TYPE_BYTES  -> Wrap("Bytes", read_sized(bs, t.pos, chk))
           [] t.val = TYPE_STRING -> WrapString(read_sized(bs, t.pos, chk))
           [] t.val = TYPE_LIST   -> Wrap("List", read_list(bs, t.pos, chk))
           [] t.val = TYPE_MAP    -> Wrap("Map", read_map(bs, t.pos, chk))
           [] OTHER               -> RErrTag(t.val, t.pos)

(***************************************************************************)
(* codec.rs: CodecWriteExt                                                 *)
(***************************************************************************)
\* r1?; r2: the bytes of r1, then those of r2 unless r1 failed.
Then(r1, r2) == IF r1.kind = "Ok" THEN [r2 EXCEPT !.out = r1.out \o r2.out] ELSE r1

\* The same for calls with several possible outcomes.
ThenAny(R1, R2) == {Then(r1, r2) : r1 \in R1, r2 \in R2}

write_u8(b) == WOk(<<b>>)

write_all(bs) == WOk(bs)

write_sized(buf) == Then(write_uvarint(BitsOf(Len(buf))), write_all(buf))

\* Largest key set of which every iteration order is explored.
MaxPermKeys == 3

\* The byte strings in lexicographic order.
LexLess(a, b) ==
    \E i \in 1..(Len(a) + 1) :
        /\ \A j \in 1..(i - 1) : j <= Len(b) /\ a[j] = b[j]
        /\ i <= Len(b)
        /\ (i > Len(a) \/ a[i] < b[i])

\* One order of the keys of S: the sorted one.
SomeOrder(S) ==
    LET ranked == {<<Cardinality({x \in S : LexLess(x, k)}) + 1, k>> : k \in S}
    IN  [i \in 1..Cardinality(S) |-> (CHOOSE r \in ranked : r[1] = i)[2]]

\* m.iter() of a HashMap: the keys in an order the program does not control.
\* Every order of a small key set is explored, and one order of a large one.
IterOrders(S) ==
    IF Cardinality(S) <= MaxPermKeys
    THEN {f \in [1..Cardinality(S) -> S] : \A i, j \in DOMAIN f : f[i] = f[j] => i = j}
    ELSE {SomeOrder(S)}

\* A capacity test that lets a container of 255 entries through.
TooLargeOffByOne(nelem) == nelem > CONTAINER_CAPACITY

\* The capacity test of write_list and write_map.
TooLarge(nelem) == nelem >= CONTAINER_CAPACITY

RECURSIVE write_typed(_)
RECURSIVE WriteListLoop(_)
RECURSIVE WriteMapLoop(_, _)

\* The for loop of write_list over the elements l, by halves.
WriteListLoop(l) ==
    IF l = <<>> THEN {WOk(<<>>)}
    ELSE IF Len(l) = 1 THEN write_typed(l[1])
    ELSE ThenAny(WriteListLoop(SubSeq(l, 1, Halves(Len(l)).a)),
                 WriteListLoop(SubSeq(l, Halves(Len(l)).a + 1, Len(l))))

\* A write_list that writes the count before it tests it.
write_list_count_first(l) ==
    LET nelem == Len(l) IN
    ThenAny({write_u8(nelem % 256)},
            IF TooLarge(nelem) THEN {WErr("InvalidInput", <<>>)} ELSE WriteListLoop(l))

write_list(l) ==
    LET nelem == Len(l) IN
    IF TooLarge(nelem) THEN {WErr("InvalidInput", <<>>)}
    ELSE ThenAny({write_u8(nelem % 256)}, WriteListLoop(l))

\* The for loop of write_map over the keys ks, in iteration order, by halves.
WriteMapLoop(m, ks) ==
    IF ks = <<>> THEN {WOk(<<>>)}
    ELSE IF Len(ks) = 1
    THEN ThenAny({write_sized(ks[1])}, write_typed(m[ks[1]]))
    ELSE ThenAny(WriteMapLoop(m, SubSeq(ks, 1, Halves(Len(ks)).a)),
                 WriteMapLoop(m, SubSeq(ks, Halves(Len(ks)).a + 1, Len(ks))))

write_map(m) ==
    LET nelem == MapLen(m) IN
    IF TooLarge(nelem) THEN {WErr("InvalidInput", <<>>)}
    ELSE ThenAny({write_u8(nelem % 256)},
                 UNION {WriteMapLoop(m, ks) : ks \in IterOrders(DOMAIN m)})

write_typed(e) ==
    CASE Tag(e) = "Int"    -> {Then(write_u8(TYPE_INT), write_varint(Val(e)))}
      [] Tag(e) = "Uint"   -> {Then(write_u8(TYPE_UINT), write_uvarint(Val(e)))}
      [] Tag(e) = "Float"  -> {Then(write_u8(TYPE_FLOAT), write_uvarint(Val(e)))}
      [] Tag(e) = "Bytes"  -> {Then(write_u8(TYPE_BYTES), write_sized(Val(e)))}
      [] Tag(e) = "String" -> {Then(write_u8(TYPE_STRING), write_sized(Val(e)))}
      [] Tag(e) = "List"   -> ThenAny({write_u8(TYPE_LIST)}, write_list(Val(e)))
      [] Tag(e) = "Map"    -> ThenAny({write_u8(TYPE_MAP)}, write_map(Val(e)))


(***************************************************************************)
(* The program around the codec: a sink that is written, then read back as *)
(* the source (the tests' Cursor), or a source of bytes from elsewhere.    *)
(***************************************************************************)
Last(q) == q[Len(q)]

\* A write call with outcome r is made on the sink.
Write(o, a, r) ==
    /\ sink' = sink \o r.out
    /\ log' = Append(log, [op |-> o, arg |-> a, start |-> Len(sink),
                           n |-> Len(r.out), kind |-> r.kind, err |-> r.err])
    /\ UNCHANGED <<checks, phase, src, pos, reads>>

\* A read call with outcome r is made on the source.
Read(o, r) ==
    /\ reads' = Append(reads, [op |-> o, start |-> pos, kind |-> r.kind, val |-> r.val,
                               pos |-> r.pos, err |-> r.err, byte |-> r.byte])
    /\ pos' = r.pos
    /\ UNCHANGED <<checks, phase, sink, log, src>>

\* The caller goes on writing only after a success, and reading likewise.
LastOk(q) == IF q = <<>> THEN TRUE ELSE Last(q).kind = "Ok"
CanWrite == phase = "write" /\ LastOk(log)
CanRead  == phase = "read" /\ Len(reads) < Len(log) /\ LastOk(reads)

\* The write call the next read answers.
Pending == log[Len(reads) + 1]

\* Bytes that follow the written data in the source: none, or stale data.
Trailing == {<<>>, <<255, 1>>}

\* The sink becomes the source, read from its start.
Rewind ==
    /\ phase = "write" /\ log # <<>>
    /\ phase' = "read"
    /\ \E t \in Trailing : src' = sink \o t
    /\ pos' = 0
    /\ UNCHANGED <<checks, sink, log, reads>>

\* A source that holds bytes bs that this program did not write.
Load(bs) ==
    /\ phase = "write" /\ log = <<>>
    /\ phase' = "read"
    /\ src' = bs
    /\ pos' = 0
    /\ log' = <<[op |-> "raw", arg |-> bs, start |-> 0, n |-> Len(bs),
                 kind |-> "Ok", err |-> "none"]>>
    /\ UNCHANGED <<checks, sink, reads>>

Init ==
    /\ checks \in BOOLEAN
    /\ phase = "write"
    /\ sink = <<>>
    /\ log = <<>>
    /\ src = <<>>
    /\ pos = 0
    /\ reads = <<>>

(***************************************************************************)
(* The integer codec's inputs                                              *)
(***************************************************************************)
\* Largest number of 1 bits of a sampled word, the named words apart.
MaxBits == 3

\* The bits at the edges of the 7-bit groups and of the word.
EdgeBits == {0, 1, 6, 7, 13, 14, 55, 56, 62, 63}

\* 0, 127, 128, 255, 300, 2^16-1, 123456789, 2^32-1, 2^56-1, i64::MAX,
\* i64::MIN (2^63 as a u64) and u64::MAX (-1 as an i64).
NamedWords ==
    {{}, 0..6, {7}, 0..7, BitsOf(300), 0..15, BitsOf(123456789), 0..31,
     0..55, 0..62, {63}, 0..63}

Words == NamedWords \cup {w \in SUBSET EdgeBits : Cardinality(w) <= MaxBits}

\* Longest run of continuation bytes of a source that no call wrote.
MaxRawLen == 12

\* Runs of continuation bytes: all 0x80, all 0xFF, or 0x80 with one 0xFF.
ContRuns ==
    {[j \in 1..n |-> 128] : n \in 0..MaxRawLen}
      \cup {[j \in 1..n |-> 255] : n \in 1..MaxRawLen}
      \cup UNION {{[j \in 1..n |-> IF j = k THEN 255 ELSE 128] : k \in 1..n} :
                  n \in 1..MaxRawLen}

\* A run of continuation bytes, unterminated or with a terminating byte.
RawVarints == {c \o t : c \in ContRuns, t \in {<<>>, <<0>>, <<1>>, <<2>>, <<127>>}}

DoWriteUvarint ==
    /\ CanWrite /\ log = <<>>
    /\ \E u \in Words : Write("write_uvarint", u, write_uvarint(u))

DoWriteVarint ==
    /\ CanWrite /\ log = <<>>
    /\ \E n \in Words : Write("write_varint", n, write_varint(n))

LoadVarint ==
    /\ phase = "write" /\ log = <<>>
    /\ \E bs \in RawVarints : Load(bs)

DoReadUvarint ==
    /\ CanRead /\ Pending.op \in {"write_uvarint", "raw"}
    /\ Read("read_uvarint", read_uvarint(src, pos, checks))

DoReadVarint ==
    /\ CanRead /\ Pending.op \in {"write_varint", "raw"}
    /\ Read("read_varint", read_varint(src, pos, checks))

NextVarint ==
    \/ DoWriteUvarint
    \/ DoWriteVarint
    \/ LoadVarint
    \/ Rewind
    \/ DoReadUvarint
    \/ DoReadVarint

SpecVarint == Init /\ [][NextVarint]_vars


(***************************************************************************)
(* The value codec's inputs                                                *)
(***************************************************************************)
\* Most entries of a sampled List or Map, the large containers apart.
MaxElems == 2

\* Most write calls made on one sink, and most bytes the sink holds when a
\* further call is made on it.
MaxWrites == 2
MaxChain == 3

CanChain == CanWrite /\ Len(log) < MaxWrites /\ Len(sink) <= MaxChain

TInt(w)    == Typed("Int", w)
TUint(w)   == Typed("Uint", w)
TFloat(w)  == Typed("Float", w)
TBytes(bs) == Typed("Bytes", bs)
TString(bs)   == Typed("String", bs)
TList(l)   == Typed("List", l)
TMap(m)    == Typed("Map", m)

\* "", "hi" and the three bytes of U+8D85.
Texts == {<<>>, <<104, 105>>, <<232, 182, 133>>}

\* Int 0, -1, i64::MIN, i64::MAX; Uint 300, u64::MAX; Float 0.0, -0.0, 1.0
\* and a NaN; Bytes; Strings.
Leaves ==
    {TInt({}), TInt(0..63), TInt({63}), TInt(0..62)}
      \cup {TUint(BitsOf(300)), TUint(0..63)}
      \cup {TFloat({}), TFloat({63}), TFloat(52..61), TFloat(51..62)}
      \cup {TBytes(<<>>), TBytes(<<0, 1, 128, 255>>)}
      \cup {TString(t) : t \in Texts}

\* The values that sampled containers hold.
Elems == {TInt(0..63), TString(<<232, 182, 133>>), TBytes(<<128>>)}

SeqsUpTo(S, n) == UNION {[1..k -> S] : k \in 0..n}

SmallLists == SeqsUpTo(Elems, MaxElems)

SmallMaps ==
    UNION {[K -> Elems] : K \in {J \in SUBSET Texts : Cardinality(J) <= MaxElems}}

\* Containers of containers: a List and a Map that hold a sampled container.
Nested ==
    {TList(<<TInt(0..63), c>>) : c \in {TList(l) : l \in SmallLists} \cup {TMap(m) : m \in SmallMaps}}
      \cup {TMap([k \in {<<>>, <<104, 105>>} |-> IF k = <<>> THEN TUint(BitsOf(300)) ELSE c]) :
               c \in {TList(l) : l \in SmallLists} \cup {TMap(m) : m \in SmallMaps}}

\* The entry counts at the capacity: the largest allowed, and the first two
\* that are not.
EdgeCounts == {CONTAINER_CAPACITY - 1, CONTAINER_CAPACITY, CONTAINER_CAPACITY + 1}

\* A list of n elements and a map of n entries (keys of two ASCII bytes).
BigList(n) == [j \in 1..n |-> TInt({})]
BigKey(j)  == <<48 + (j \div 16), 48 + (j % 16)>>
BigMap(n)  == [k \in {BigKey(j) : j \in 0..(n - 1)} |-> TInt({})]

BigLists == {BigList(n) : n \in EdgeCounts}
BigMaps  == {BigMap(n) : n \in EdgeCounts}

\* Large containers inside a container, after an element that is written.
BigNested ==
    {TList(<<TString(<<104, 105>>), TList(l)>>) : l \in BigLists}
      \cup {TList(<<TMap(m)>>) : m \in BigMaps}

Lists == SmallLists \cup BigLists
Maps  == SmallMaps \cup BigMaps

Values ==
    Leaves \cup {TList(l) : l \in Lists} \cup {TMap(m) : m \in Maps}
      \cup Nested \cup BigNested

\* What is written after a first value.
Followers == {TInt(0..63), TString(<<104, 105>>), TList(<<>>), TMap(<<>>)}

ByteStrings == {<<>>, <<97>>, <<97, 98, 99, 100, 101, 102>>, <<0, 128, 255>>}

DoWriteTyped ==
    /\ CanChain
    /\ \E v \in (IF log = <<>> THEN Values ELSE Followers) :
          \E r \in write_typed(v) : Write("write_typed", v, r)

DoWriteList ==
    /\ CanWrite /\ log = <<>>
    /\ \E l \in Lists : \E r \in write_list(l) : Write("write_list", l, r)

DoWriteMap ==
    /\ CanWrite /\ log = <<>>
    /\ \E m \in Maps : \E r \in write_map(m) : Write("write_map", m, r)

DoWriteSized ==
    /\ CanChain
    /\ \E bs \in ByteStrings : Write("write_sized", bs, write_sized(bs))

DoReadTyped ==
    /\ CanRead /\ Pending.op \in {"write_typed", "failing", "truncated"}
    /\ Read("read_typed", read_typed(src, pos, checks))

DoReadList ==
    /\ CanRead /\ Pending.op \in {"write_list", "failing_list"}
    /\ Read("read_list", read_list(src, pos, checks))

DoReadMap ==
    /\ CanRead /\ Pending.op \in {"write_map", "failing_map"}
    /\ Read("read_map", read_map(src, pos, checks))

DoReadSized ==
    /\ CanRead /\ Pending.op = "write_sized"
    /\ Read("read_sized", read_sized(src, pos, checks))

NextValue ==
    \/ DoWriteTyped
    \/ DoWriteList
    \/ DoWriteMap
    \/ DoWriteSized
    \/ Rewind
    \/ DoReadTyped
    \/ DoReadList
    \/ DoReadMap
    \/ DoReadSized

SpecValue == Init /\ [][NextValue]_vars

(***************************************************************************)
(* Sources on which a decode fails                                         *)
(***************************************************************************)
\* Deepest nesting of the containers around a failing step.
MaxDepth == 2

\* n continuation bytes.
Cont(n) == [j \in 1..n |-> 128]

\* The encoding of a value: `bytes` is what the sink holds after write_typed,
\* in one of the orders of its maps.
Enc(v) == (CHOOSE r \in write_typed(v) : r.kind = "Ok").out

RECURSIVE EncAll(_)
EncAll(vs) == IF vs = <<>> THEN <<>> ELSE Enc(Head(vs)) \o EncAll(Tail(vs))

\* A step that fails: `step` are its bytes, read by read_typed ("typed") or, a
\* map key, by read_sized ("sized"); `final` when it fails by the end of the
\* source, so that nothing can follow it. In order: two unknown tags; a Uint
\* of 10 bytes whose last is 2; an Int of 11 bytes; a Float of 12 bytes; a key
\* whose length has 11 bytes; a String of 5 bytes cut after 1; a Uint cut in
\* its varint; a List cut after its count; a Bytes whose length is 2^63.
FailingSteps ==
    {[step |-> <<120>>, reader |-> "typed", final |-> FALSE],
     [step |-> <<0>>, reader |-> "typed", final |-> FALSE],
     [step |-> <<TYPE_UINT>> \o Cont(9) \o <<2>>, reader |-> "typed", final |-> FALSE],
     [step |-> <<TYPE_INT>> \o Cont(10) \o <<0>>, reader |-> "typed", final |-> FALSE],
     [step |-> <<TYPE_FLOAT>> \o Cont(11) \o <<0>>, reader |-> "typed", final |-> FALSE],
     [step |-> Cont(10) \o <<1>>, reader |-> "sized", final |-> FALSE],
     [step |-> <<TYPE_STRING, 5, 104>>, reader |-> "typed", final |-> TRUE],
     [step |-> <<TYPE_UINT, 172>>, reader |-> "typed", final |-> TRUE],
     [step |-> <<TYPE_LIST, 1>>, reader |-> "typed", final |-> TRUE],
     [step |-> <<TYPE_BYTES>> \o Cont(9) \o <<1>>, reader |-> "typed", final |-> TRUE]}

\* A failing step where a value is read: a key's failure needs a map around it.
Bare(f) == [bytes |-> f.step, at |-> 0, step |-> f.step, reader |-> f.reader,
            final |-> f.final]

\* The elements read before a failing element, and those that follow it.
Before == {<<>>, <<TInt(0..63)>>, <<TString(<<104, 105>>), TList(<<TUint(BitsOf(300))>>)>>}
After  == {<<>>, <<TUint(BitsOf(300))>>}

\* The source s as one element of a List, after the elements b and before a.
InList(s, b, a) ==
    LET pre == EncAll(b) IN
    [s EXCEPT !.bytes = <<TYPE_LIST, Len(b) + 1 + Len(a)>> \o pre \o s.bytes \o EncAll(a),
              !.at = 2 + Len(pre) + s.at]

\* The source s as the value of the last entry of a Map, after one entry or
\* none; a failing key takes the place of the entry's key and value.
InMap(s, b) ==
    LET key == IF s.reader = "sized" /\ s.at = 0 THEN <<>> ELSE write_sized(<<104, 105>>).out
        pre == IF b = <<>> THEN <<>> ELSE write_sized(<<>>).out \o EncAll(b)
    IN  [s EXCEPT !.bytes = <<TYPE_MAP, Len(b) + 1>> \o pre \o key \o s.bytes,
                  !.at = 2 + Len(pre) + Len(key) + s.at]

Around(S) ==
    {InList(s, b, a) : s \in {x \in S : x.reader = "typed" \/ x.at > 0},
                       b \in Before, a \in After}
      \cup {InMap(s, b) : s \in S, b \in {<<>>, <<TInt(0..63)>>}}

RECURSIVE FailingAt(_)
FailingAt(d) ==
    IF d = 0 THEN {Bare(f) : f \in FailingSteps}
    ELSE Around(FailingAt(d - 1))

\* A source is well formed up to its failing step: a key is not read as a
\* value, and nothing follows a step that fails by the end of the source.
Failing ==
    {s \in UNION {FailingAt(d) : d \in 0..MaxDepth} :
        /\ (s.reader = "sized" => s.at > 0)
        /\ (s.final => s.at + Len(s.step) = Len(s.bytes))}

\* The encodings of the sampled containers of containers, cut short.
Truncated ==
    UNION {LET e == Enc(v) IN {SubSeq(e, 1, n) : n \in 0..(Len(e) - 1)} : v \in Nested}

\* A source that fails at a known step is read by read_typed, or its first
\* byte has been read as the tag and read_list or read_map is called.
LoadFailing ==
    /\ phase = "write" /\ log = <<>>
    /\ phase' = "read"
    /\ pos' = 0
    /\ \E s \in Failing :
          \/ /\ src' = s.bytes
             /\ log' = <<[op |-> "failing", arg |-> s.bytes, start |-> 0, n |-> Len(s.bytes),
                          kind |-> "Ok", err |-> "none", at |-> s.at, step |-> s.step,
                          reader |-> s.reader]>>
          \/ /\ s.at > 0
             /\ src' = Tail(s.bytes)
             /\ log' = <<[op |-> IF Head(s.bytes) = TYPE_LIST THEN "failing_list"
                                 ELSE "failing_map",
                          arg |-> Tail(s.bytes), start |-> 0, n |-> Len(s.bytes) - 1,
                          kind |-> "Ok", err |-> "none", at |-> s.at - 1, step |-> s.step,
                          reader |-> s.reader]>>
    /\ UNCHANGED <<checks, sink, reads>>

LoadTruncated ==
    /\ phase = "write" /\ log = <<>>
    /\ phase' = "read"
    /\ pos' = 0
    /\ \E bs \in Truncated :
          /\ src' = bs
          /\ log' = <<[op |-> "truncated", arg |-> bs, start |-> 0, n |-> Len(bs),
                       kind |-> "Ok", err |-> "none"]>>
    /\ UNCHANGED <<checks, sink, reads>>

NextDecode ==
    \/ LoadFailing
    \/ LoadTruncated
    \/ DoReadTyped
    \/ DoReadList
    \/ DoReadMap

SpecDecode == Init /\ [][NextDecode]_vars

(***************************************************************************)
(* Properties of the integer codec (under SpecVarint)                      *)
(***************************************************************************)
\* The bytes the k-th write call put into the sink.
Written(k) == SubSeq(sink, log[k].start + 1, log[k].start + log[k].n)

\* C2: for every u64 u, write_uvarint(u) succeeds and read_uvarint on the
\* bytes it wrote succeeds and returns exactly u.
C2_UvarintRoundTrip ==
    /\ \A k \in DOMAIN log : log[k].op = "write_uvarint" => log[k].kind = "Ok"
    /\ \A k \in DOMAIN reads :
          log[k].op = "write_uvarint" =>
              /\ reads[k].op = "read_uvarint"
              /\ reads[k].kind = "Ok"
              /\ reads[k].val = log[k].arg

\* u64::MAX has been written and read back.
C2_Witness ==
    \E k \in DOMAIN reads :
        /\ log[k].op = "write_uvarint" /\ log[k].arg = 0..63 /\ log[k].n = 10
        /\ reads[k].kind = "Ok" /\ reads[k].val = 0..63

\* C3: for every i64 n, negative ones included, write_varint(n) succeeds and
\* read_varint on the bytes it wrote succeeds and returns exactly n; the
\* zigzag transform and its inverse undo each other.
C3_VarintRoundTrip ==
    /\ \A k \in DOMAIN log :
          log[k].op = "write_varint" =>
              /\ log[k].kind = "Ok"
              /\ UnZigZag(ZigZag(log[k].arg)) = log[k].arg
              /\ ZigZag(UnZigZag(log[k].arg)) = log[k].arg
    /\ \A k \in DOMAIN reads :
          log[k].op = "write_varint" =>
              /\ reads[k].op = "read_varint"
              /\ reads[k].kind = "Ok"
              /\ reads[k].val = log[k].arg

\* i64::MIN has been written, as the ten bytes of u64::MAX, and read back.
C3_Witness ==
    \E k \in DOMAIN reads :
        /\ log[k].op = "write_varint" /\ log[k].arg = {63} /\ log[k].n = 10
        /\ reads[k].kind = "Ok" /\ reads[k].val = {63}

\* C4: write_uvarint emits 1 to 10 bytes without ever storing past the
\* scratch buffer; byte j holds bits 7(j-1) .. 7j-1 of the value, every byte
\* but the last has 0x80 set and the last has it clear; 300 is [0xAC, 0x02].
C4_WireShape ==
    \A k \in DOMAIN log :
        log[k].op = "write_uvarint" =>
            LET bs == Written(k)
                u  == log[k].arg
                n  == log[k].n
            IN  /\ log[k].kind = "Ok"
                /\ n \in 1..10
                /\ \A j \in 1..(n - 1) : bs[j] >= 128
                /\ bs[n] < 128
                /\ \A j \in 1..n :
                      BitsOf(bs[j] % 128) =
                          {b - 7 * (j - 1) : b \in u \cap (7 * (j - 1))..(7 * j - 1)}
                /\ \A b \in u : b < 7 * n
                /\ (u = BitsOf(300) => bs = <<172, 2>>)

\* 300 has been written as [0xAC, 0x02].
C4_Witness ==
    \E k \in DOMAIN log :
        /\ log[k].op = "write_uvarint" /\ log[k].arg = BitsOf(300)
        /\ log[k].kind = "Ok" /\ Written(k) = <<172, 2>>

\* A source that ends with a terminating byte (high bit clear) after
\* continuation bytes only: one whole varint encoding.
IsEncoding(bs) ==
    /\ bs # <<>>
    /\ Last(bs) < 128
    /\ \A j \in 1..(Len(bs) - 1) : bs[j] >= 128

\* C6: an encoding of more than 10 bytes, or of 10 bytes with a last byte
\* above 1, makes read_uvarint fail with MalformedVarint (InvalidData); no
\* value is returned from such an encoding, and a returned value has every
\* bit the encoding carries.
C6_OverlongRejected ==
    \A k \in DOMAIN reads :
        (log[k].op = "raw" /\ reads[k].op = "read_uvarint" /\ IsEncoding(log[k].arg)) =>
            LET bs == log[k].arg IN
            /\ (Len(bs) > 10 \/ (Len(bs) = 10 /\ Last(bs) > 1)) =>
                   (reads[k].kind = "Err" /\ reads[k].err = "InvalidData")
            /\ reads[k].kind = "Ok" =>
                   \A j \in 1..Len(bs) : \A b \in BitsOf(bs[j] % 128) :
                       (b + 7 * (j - 1)) \in reads[k].val

\* C7: a source of continuation bytes only, of any length, makes
\* read_uvarint fail with UnexpectedEndOfInput (UnexpectedEof), and end in
\* no other way.
C7_TruncatedIsEof ==
    \A k \in DOMAIN reads :
        (log[k].op = "raw" /\ reads[k].op = "read_uvarint"
            /\ \A j \in DOMAIN log[k].arg : log[k].arg[j] >= 128) =>
                (reads[k].kind = "Err" /\ reads[k].err = "UnexpectedEof")


(***************************************************************************)
(* Properties of the value codec (under SpecValue)                         *)
(***************************************************************************)
\* Every List and Map of e, at every depth, has at most 254 entries.
RECURSIVE WellSized(_)
WellSized(e) ==
    CASE Tag(e) = "List" ->
            Len(Val(e)) <= 254 /\ \A i \in DOMAIN Val(e) : WellSized(Val(e)[i])
      [] Tag(e) = "Map" ->
            MapLen(Val(e)) <= 254 /\ \A k \in DOMAIN Val(e) : WellSized(Val(e)[k])
      [] OTHER -> TRUE

\* C1: for every Typed value whose Lists and Maps all have at most 254
\* entries, write_typed succeeds and read_typed on the bytes it wrote returns
\* an equal value (a Float as its 64 bits, a Map as a mapping).
C1_ValueRoundTrip ==
    /\ \A k \in DOMAIN log :
          (log[k].op = "write_typed" /\ WellSized(log[k].arg)) => log[k].kind = "Ok"
    /\ \A k \in DOMAIN reads :
          (log[k].op = "write_typed" /\ WellSized(log[k].arg)) =>
              /\ reads[k].op = "read_typed"
              /\ reads[k].kind = "Ok"
              /\ reads[k].val = log[k].arg

\* A Map of two entries, one of them a List that holds a non-ASCII String,
\* has been written and read back.
C1_Witness ==
    \E k \in DOMAIN reads :
        /\ log[k].op = "write_typed" /\ Tag(log[k].arg) = "Map"
        /\ MapLen(Val(log[k].arg)) = 2
        /\ \E key \in DOMAIN Val(log[k].arg) :
              LET v == Val(log[k].arg)[key] IN
              /\ Tag(v) = "List"
              /\ \E i \in DOMAIN Val(v) : Val(v)[i] = TString(<<232, 182, 133>>)
        /\ reads[k].kind = "Ok" /\ reads[k].val = log[k].arg

\* The container a write call was given, if any: its entry count and the
\* number of bytes the call writes before the count byte.
IsContainerWrite(w) ==
    \/ w.op \in {"write_list", "write_map"}
    \/ w.op = "write_typed" /\ Tag(w.arg) \in {"List", "Map"}

EntryCount(w) ==
    CASE w.op = "write_list" -> Len(w.arg)
      [] w.op = "write_map" -> MapLen(w.arg)
      [] w.op = "write_typed" /\ Tag(w.arg) = "List" -> Len(Val(w.arg))
      [] w.op = "write_typed" /\ Tag(w.arg) = "Map" -> MapLen(Val(w.arg))

CountAt(w) == IF w.op = "write_typed" THEN 2 ELSE 1

\* C5: a List or Map of exactly 254 entries is written, with the count byte
\* 254; one of 255 or more fails with ContainerTooLarge (InvalidInput); a
\* count byte that is written is the number of entries, and never 255.
C5_ContainerBoundary ==
    \A k \in DOMAIN log :
        IsContainerWrite(log[k]) =>
            LET w == log[k]
                c == EntryCount(w)
            IN  /\ c = 254 => (w.kind = "Ok" /\ Written(k)[CountAt(w)] = 254)
                /\ c >= 255 => (w.kind = "Err" /\ w.err = "InvalidInput")
                /\ w.n >= CountAt(w) =>
                       (Written(k)[CountAt(w)] = c /\ Written(k)[CountAt(w)] # 255)

\* A Map of 254 entries has been written by write_map.
C5_Witness ==
    \E k \in DOMAIN log :
        /\ log[k].op = "write_map" /\ MapLen(log[k].arg) = 254
        /\ log[k].kind = "Ok" /\ Written(k)[1] = 254

\* C9: a successful decode ends exactly where the matching encode ended,
\* whatever follows in the source: values written back to back are read in
\* order, an empty List or Map takes its count byte only, and a sized
\* payload its length prefix and that many bytes.
C9_ExactConsumption ==
    \A k \in DOMAIN reads :
        log[k].kind = "Ok" =>
            /\ reads[k].kind = "Ok"
            /\ reads[k].start = log[k].start
            /\ reads[k].pos = log[k].start + log[k].n
            /\ reads[k].val = log[k].arg
            /\ (log[k].op \in {"write_list", "write_map"} /\ log[k].arg = <<>>) =>
                   reads[k].pos = reads[k].start + 1

\* An empty List and then a second value have been read from a source that
\* holds stale bytes after them, which are left unread.
C9_Witness ==
    /\ Len(reads) = 2
    /\ log[1].op = "write_typed" /\ log[1].arg = TList(<<>>)
    /\ reads[2].kind = "Ok" /\ reads[2].start = 2
    /\ pos = Len(sink) /\ Len(src) > Len(sink)

\* C10: write_list and write_map given 255 entries or more fail without a
\* byte written; write_typed given such a List or Map fails with its tag
\* byte written and nothing else.
C10_SinkOnTooLarge ==
    \A k \in DOMAIN log :
        (IsContainerWrite(log[k]) /\ EntryCount(log[k]) >= 255) =>
            LET w == log[k] IN
            /\ w.kind = "Err"
            /\ w.op \in {"write_list", "write_map"} => w.n = 0
            /\ w.op = "write_typed" =>
                   Written(k) = <<IF Tag(w.arg) = "List" THEN TYPE_LIST ELSE TYPE_MAP>>
            /\ (k = 1 /\ Len(log) = 1) => sink = Written(k)

\* write_typed has failed on a Map of 255 entries, and the sink holds 'm'.
C10_Witness ==
    \E k \in DOMAIN log :
        /\ log[k].op = "write_typed" /\ Tag(log[k].arg) = "Map"
        /\ MapLen(Val(log[k].arg)) = 255
        /\ log[k].kind = "Err" /\ sink = <<109>>


(***************************************************************************)
(* Properties of a failing decode (under SpecDecode)                       *)
(***************************************************************************)
\* What the failing step gives when it is called on its own bytes.
StepOutcome(w) ==
    IF w.reader = "sized" THEN read_sized(w.step, 0, checks)
    ELSE read_typed(w.step, 0, checks)

\* C8: when a step fails at any depth of a List or Map, the outermost
\* read_typed, read_list or read_map ends with that step's error and with no
\* value, having read nothing after the failing step; a source that is cut
\* short fails with UnexpectedEndOfInput (UnexpectedEof).
C8_AllOrNothing ==
    \A k \in DOMAIN reads :
        /\ log[k].op \in {"failing", "failing_list", "failing_map"} =>
              LET f == StepOutcome(log[k]) IN
              /\ reads[k].kind # "Ok" /\ reads[k].val = NoVal
              /\ reads[k].kind = f.kind
              /\ reads[k].err = f.err /\ reads[k].byte = f.byte
              /\ reads[k].pos = log[k].at + f.pos
              /\ (log[k].step = <<120>> =>
                     reads[k].kind = "Err" /\ reads[k].err = "UnknownType"
                       /\ reads[k].byte = 120)
              /\ (log[k].step \in {<<TYPE_UINT>> \o Cont(9) \o <<2>>,
                                   <<TYPE_INT>> \o Cont(10) \o <<0>>} =>
                     reads[k].kind = "Err" /\ reads[k].err = "InvalidData")
        /\ log[k].op = "truncated" =>
              /\ reads[k].kind = "Err" /\ reads[k].err = "UnexpectedEof"
              /\ reads[k].val = NoVal

\* read_list has failed on an unknown tag two containers deep, after
\* elements that were read and before an element that was not.
C8_Witness ==
    \E k \in DOMAIN reads :
        /\ log[k].op = "failing_list" /\ log[k].step = <<120>>
        /\ log[k].at > 6 /\ log[k].at + 1 < Len(src)
        /\ reads[k].op = "read_list" /\ reads[k].kind = "Err"
        /\ reads[k].err = "UnknownType" /\ reads[k].pos = log[k].at + 1


====
